---- MODULE Spec2Model ----
(***************************************************************************)
(* Conway's Game of Life on a finite toroidal grid, as implemented by the  *)
(* OpenMP binary (gol-openmp.cpp) and the CUDA binary (gol-cuda.cu).       *)
(*                                                                         *)
(* The model is a shell session in one working directory: either binary    *)
(* can be started with the same command line <height> <width> <turns>,     *)
(* runs to its end and leaves its output file behind, so that the two      *)
(* output files can be compared (README, "To verify") and a binary can be  *)
(* run again.  Inside a run, the rows handed to the OpenMP team and the    *)
(* threads of a CUDA launch are interleaved cell by cell.                  *)
(***************************************************************************)
EXTENDS Integers, Sequences, FiniteSets, TLC

VARIABLES
    args,             \* the command line: argc, and argv[1..3] as [h, w, turns]
    status,           \* exit status of the process that ended last
    console,          \* what the running (or last) process printed
    prog,             \* the binary that is running: "none", "openmp", "cuda"
    pc,               \* position of the running binary's main thread
    file,             \* output-openmp.txt and output-cuda.txt on disk
    height, width,    \* Life::height, Life::width
    cells, nextcells, \* Life::cells, Life::nextcells (host vectors)
    numTurns, t,      \* Life::run's parameter and loop counter
    heap,             \* openmp: where the allocator put the two vectors' storage
    rowsLeft,         \* openmp: iterations y of the parallel for not yet handed out
    team,             \* openmp: per row a team thread is working on, the column it is at
    cellsDevice, nextcellsDevice,  \* cuda: the two device buffers
    launch,           \* cuda: arguments and configuration of the running kernel
    gthr,             \* cuda: per device thread, its loop variable i
    wcount, wrows,    \* per index of next: number of writes, and who wrote, this generation
    swaps, copies,    \* buffer swaps and device-to-host copies made by this run
    probe             \* result of a single evaluation of the rule / the neighbour sum

vars == <<args, status, console, prog, pc, file, height, width, cells, nextcells,
          numTurns, t, heap, rowsLeft, team, cellsDevice, nextcellsDevice, launch,
          gthr, wcount, wrows, swaps, copies, probe>>

shellVars == <<status, console>>
runVars == <<swaps, copies>>

hostVars == <<height, width, cells, nextcells, numTurns, t>>
ompVars  == <<heap, rowsLeft, team>>
cudaVars == <<cellsDevice, nextcellsDevice, launch, gthr>>
logVars  == <<wcount, wrows>>

----------------------------------------------------------------------------
(* Bounds of the model *)

MaxH == 4
MaxW == 5
MaxCells == 12
MaxTurns == 2
NumThreads == 2
MaxGap == 2
KMaxCells == 9
MaxGridDim == 2
MaxBlockDim == 2
MaxArgc == 5

(* Program constants *)

alive == 1
dead == 0
threads == 256

\* the device threads that can pass the kernel's first loop test in this model
DeviceThreads == 0..((IF MaxCells > KMaxCells THEN MaxCells ELSE KMaxCells) - 1)

Dims == {d \in (1..MaxH) \X (1..MaxW) : d[1] * d[2] <= MaxCells}

NoFile == <<"absent">>

\* args.size() of the command lines tried, and the one main accepts
ArgCounts == 1..MaxArgc
ArgsWanted == 4

\* $? of a process: what main returned, or 128 + the signal that ended it
\* (SIGABRT from abort(), SIGABRT or SIGSEGV after a store outside a vector)
NoStatus == 0 - 1
Aborted == 128 + 6
Faulted == {128 + 6, 128 + 11}

UsageMessage == "Usage: ./gol-cuda <height> <width> <turns>"

\* results of a CUDA runtime call
cudaSuccess == "cudaSuccess"
cudaError_t == {cudaSuccess, "cudaErrorUnknown"}

checkErrorReturns(e, then) == then

\* checkError(e): abort() unless e is cudaSuccess; the position main is at next
checkError(e, then) == IF e # cudaSuccess THEN "crashed" ELSE then
NoLaunch == [n |-> 0, w |-> 0, h |-> 0, gridDim |-> 0, blockDim |-> 0]
NoProbe == [kind |-> "none"]

\* The two vectors' storage lies at two places of the heap, one below the
\* other, gap bytes apart; the layout shows only once an access leaves a vector.
NoLayout == [known |-> FALSE, cellsLow |-> TRUE, gap |-> 0]
Layouts(hp) ==
    IF hp.known THEN {hp}
    ELSE {[known |-> TRUE, cellsLow |-> b, gap |-> g] : b \in BOOLEAN, g \in 0..MaxGap}

\* A device word that cudaMalloc left unwritten.
Uninit == 0 - 1

\* A byte read from beyond the end of a vector: whatever the heap holds there.
HeapBytes == {0, 1, 255}

----------------------------------------------------------------------------
(* Arithmetic of the two programs *)

\* unsigned int is held in two's-complement form: a value u < 2^31 as u, a
\* value u >= 2^31 as u - 2^32.  Sums, differences and products are then the
\* integer ones; the remainder has to undo the encoding.
U32Mod(s, m) ==
    IF s >= 0 THEN s % m
    ELSE ((s % m) + ((2^16 % m) * (2^16 % m))) % m

\* conversion to uint8_t
U8(v) == v % 256

\* std::mt19937 engine; (default seed 5489) behind
\* std::uniform_int_distribution<int>(0,1), as libstdc++ evaluates it: the
\* first outputs of the bound generator.
MtStream ==
    <<1,0,1,1,0,1,1,0, 1,0,0,1,0,0,1,1, 1,1,1,1,0,1,1,1, 1,0,0,1,1,0,0,0>>

\* std::vector<T>::resize on a fresh vector: n value-initialised elements
Resized(n) == [i \in 0..(n - 1) |-> 0]

\* std::generate(cells.begin(), cells.end(), generator)
init_random(n) == [i \in 0..(n - 1) |-> MtStream[i + 1]]

\* std::fill(cells.begin(), cells.end(), dead); then the five cells set alive
init_glider(n, w) ==
    [i \in 0..(n - 1) |->
        IF i \in {0 + 2, 0 + w, 0 + w + 2, 0 + w + w + 1, 0 + w + w + 2}
        THEN alive ELSE dead]

Size(v) == Cardinality(DOMAIN v)

----------------------------------------------------------------------------
(* gol-openmp.cpp, the body of the parallel for *)

OmpLoopTestInclusive(tt, turns) == tt <= turns

\* for (unsigned int t = 0; t < numTurns; t++)
OmpLoopTest(tt, turns) == tt < turns

\* const unsigned int index = (y * height) + x;
OmpIndex(y, x, h) == (y * h) + x

OmpLeftUnbiased(x, w) == U32Mod(x - 1, w)

OmpLeft(x, w)  == U32Mod(x - 1 + w, w)
OmpRight(x, w) == U32Mod(x + 1, w)
OmpUp(y, h)    == U32Mod(y - 1 + h, h)

OmpDownUnwrapped(y, h) == y + 1

OmpDown(y, h)  == U32Mod(y + 1, h)

\* the eight subscripts of the inlined count_neighbours, in source order
OmpReads(x, y, h, w) ==
    << OmpLeft(x, w) + (OmpUp(y, h) * w),
       x + (OmpUp(y, h) * w),
       OmpRight(x, w) + (OmpUp(y, h) * w),
       OmpLeft(x, w) + y * w,
       OmpRight(x, w) + y * w,
       OmpLeft(x, w) + (OmpDown(y, h) * w),
       x + (OmpDown(y, h) * w),
       OmpRight(x, w) + (OmpDown(y, h) * w) >>

\* const uint8_t neighbours = cells[..] + ... + cells[..];
OmpNeighbours(c, x, y, h, w) ==
    LET r == OmpReads(x, y, h, w)
    IN  U8(c[r[1]] + c[r[2]] + c[r[3]] + c[r[4]] + c[r[5]] + c[r[6]] + c[r[7]] + c[r[8]])

OmpRuleBirthOnTwo(neighbours, self) ==
    IF neighbours = 3 THEN self
    ELSE IF neighbours = 2 THEN alive
    ELSE dead

\* the ruleset branch; self is the value of cells[index]
OmpRule(neighbours, self) ==
    IF neighbours = 2 THEN self
    ELSE IF neighbours = 3 THEN alive
    ELSE dead

----------------------------------------------------------------------------
(* gol-cuda.cu, the body of the kernel's loop *)

CudaReads(x, y, h, w) ==
    << ((x - 1 + w) % w) + (((y - 1 + h) % h) * w),
       x + (((y - 1 + h) % h) * w),
       ((x + 1) % w) + (((y - 1 + h) % h) * w),
       ((x - 1 + w) % w) + y * w,
       ((x + 1) % w) + y * w,
       ((x - 1 + w) % w) + (((y + 1) % h) * w),
       x + (((y + 1) % h) * w),
       ((x + 1) % w) + (((y + 1) % h) * w) >>

CudaNeighbours(current, x, y, h, w) ==
    LET r == CudaReads(x, y, h, w)
    IN  current[r[1]] + current[r[2]] + current[r[3]] + current[r[4]]
        + current[r[5]] + current[r[6]] + current[r[7]] + current[r[8]]

CudaRuleKeepsOnThree(neighbours, self) ==
    IF neighbours = 2 THEN self
    ELSE IF neighbours = 3 THEN self
    ELSE 0

CudaRule(neighbours, self) ==
    IF neighbours = 2 THEN self
    ELSE IF neighbours = 3 THEN 1
    ELSE 0

\* for (unsigned t = 0; t < numTurns; t++)
CudaLoopTest(tt, turns) == tt < turns

CudaStrideOfOneBlock(l) == l.blockDim

\* int stride = blockDim.x*gridDim.x;
CudaStride(l) == l.blockDim * l.gridDim

\* int index = blockIdx.x*blockDim.x + threadIdx.x;
CudaThreadIds(l) ==
    {b * l.blockDim + th : b \in 0..(l.gridDim - 1), th \in 0..(l.blockDim - 1)}

\* const int blocks = (cells.size()+threads-1)/threads;
CudaBlocks(n) == (n + threads - 1) \div threads

----------------------------------------------------------------------------
(* output_file: H lines, each the decimal text of (unsigned)cells[y*width+x] *)

DigitChar == <<"0", "1", "2", "3", "4", "5", "6", "7", "8", "9">>

RECURSIVE Decimal(_)
Decimal(v) ==
    IF v < 10 THEN <<DigitChar[v + 1]>>
    ELSE Decimal(v \div 10) \o <<DigitChar[(v % 10) + 1]>>

RECURSIVE LineFrom(_, _, _, _)
LineFrom(c, y, x, w) ==
    IF x < w THEN Decimal(c[y * w + x]) \o LineFrom(c, y, x + 1, w)
    ELSE <<>>

output_file(c, h, w) == [y \in 1..h |-> LineFrom(c, y - 1, 0, w)]

----------------------------------------------------------------------------
(* The session *)

Blank ==
    /\ height = 0 /\ width = 0
    /\ cells = <<>> /\ nextcells = <<>>
    /\ numTurns = 0 /\ t = 0
    /\ heap = NoLayout
    /\ rowsLeft = {} /\ team = <<>>
    /\ cellsDevice = <<>> /\ nextcellsDevice = <<>>
    /\ launch = NoLaunch /\ gthr = <<>>
    /\ wcount = <<>> /\ wrows = <<>>
    /\ swaps = 0 /\ copies = 0

\* argv[1..3] are read only when args.size() is 4, and are left 0 here otherwise
Init ==
    /\ args \in {[argc |-> ArgsWanted, h |-> d[1], w |-> d[2], turns |-> n] :
                    d \in Dims, n \in 0..MaxTurns}
               \cup {[argc |-> a, h |-> 0, w |-> 0, turns |-> 0] :
                       a \in ArgCounts \ {ArgsWanted}}
    /\ status = NoStatus /\ console = <<>>
    /\ prog = "none" /\ pc = "shell"
    /\ file = [openmp |-> NoFile, cuda |-> NoFile]
    /\ Blank
    /\ probe = NoProbe

\* ./gol-<variant> <height> <width> <turns>
Start(p) ==
    /\ prog = "none"
    /\ prog' = p /\ pc' = "main"
    /\ status' = NoStatus /\ console' = <<>>
    /\ UNCHANGED <<runVars, args, file, hostVars, ompVars, cudaVars, logVars, probe>>

\* args.size() is not 4: the usage line, and return 1
Usage ==
    /\ prog # "none" /\ pc = "main" /\ args.argc # ArgsWanted
    /\ console' = Append(console, UsageMessage)
    /\ pc' = "usage"
    /\ UNCHANGED <<status, runVars, args, prog, file, hostVars, ompVars, cudaVars,
                   logVars, probe>>

\* return 1 in the usage branch, 0 at the end of main, none after abort()
\* or a fault
ExitStatus(p, at) ==
    IF at = "usage" THEN {1}
    ELSE IF at = "done" THEN {0}
    ELSE IF p = "cuda" THEN {Aborted} ELSE Faulted

\* checkError(e) on the way to position then: its line on std::cerr, and abort()
Checked(e, then) ==
    /\ pc' = checkError(e, then)
    /\ console' = IF e # cudaSuccess THEN Append(console, "CUDA error") ELSE console

\* the process ends (return from main, or abort) and its memory is gone
Exit ==
    /\ prog # "none" /\ pc \in {"done", "usage", "crashed"}
    /\ status' \in ExitStatus(prog, pc)
    /\ prog' = "none" /\ pc' = "shell"
    /\ height' = 0 /\ width' = 0
    /\ cells' = <<>> /\ nextcells' = <<>>
    /\ numTurns' = 0 /\ t' = 0
    /\ heap' = NoLayout
    /\ rowsLeft' = {} /\ team' = <<>>
    /\ cellsDevice' = <<>> /\ nextcellsDevice' = <<>>
    /\ launch' = NoLaunch /\ gthr' = <<>>
    /\ wcount' = <<>> /\ wrows' = <<>>
    /\ swaps' = 0 /\ copies' = 0
    /\ UNCHANGED <<console, args, file, probe>>

----------------------------------------------------------------------------
(* gol-openmp.cpp *)

\* Life l(height, width), with the board pattern the constructor sets
OmpLife(board) ==
    /\ height' = args.h /\ width' = args.w
    /\ cells' = board
    /\ nextcells' = Resized(args.h * args.w)
    /\ numTurns' = args.turns /\ t' = 0
    /\ pc' = "loop"
    /\ UNCHANGED <<shellVars, runVars, args, prog, file, ompVars, cudaVars, logVars, probe>>

\* main up to and including Life l(height, width); init_random() is the
\* pattern the constructor sets
OmpConstruct ==
    /\ prog = "openmp" /\ pc = "main" /\ args.argc = ArgsWanted
    /\ OmpLife(init_random(args.h * args.w))

\* domain of the write log: every index a row can compute
OmpLogDomain == 0..(height * height + width)

\* for (t = 0; t < numTurns; ...) taken: the team forks on the parallel for
OmpFork ==
    /\ prog = "openmp" /\ pc = "loop" /\ OmpLoopTest(t, numTurns)
    /\ rowsLeft' = 0..(height - 1)
    /\ team' = <<>>
    /\ wcount' = [i \in OmpLogDomain |-> 0]
    /\ wrows' = [i \in OmpLogDomain |-> {}]
    /\ pc' = "parallel"
    /\ UNCHANGED <<shellVars, runVars, args, prog, file, hostVars, heap, cudaVars, probe>>

\* a team thread that has none is handed iteration y of the parallel for
OmpTakeRow(y) ==
    /\ prog = "openmp" /\ pc = "parallel"
    /\ Cardinality(DOMAIN team) < NumThreads /\ y \in rowsLeft
    /\ rowsLeft' = rowsLeft \ {y}
    /\ team' = [r \in DOMAIN team \cup {y} |-> IF r = y THEN 0 ELSE team[r]]
    /\ UNCHANGED <<shellVars, runVars, args, prog, pc, file, hostVars, heap, cudaVars,
                   logVars, probe>>

\* x++ and the test x < width; past the last column the thread is free again
OmpAdvance(y) ==
    team' = IF team[y] + 1 < width THEN [team EXCEPT ![y] = @ + 1]
            ELSE [r \in DOMAIN team \ {y} |-> team[r]]

OmpLog(y, index) ==
    /\ wcount' = [wcount EXCEPT ![index] = @ + 1]
    /\ wrows' = [wrows EXCEPT ![index] = @ \cup {y}]

\* one pass through the body of the x loop, index inside the vectors
OmpCell(y) ==
    /\ prog = "openmp" /\ pc = "parallel" /\ y \in DOMAIN team
    /\ LET x == team[y]
           index == OmpIndex(y, x, height)
           neighbours == OmpNeighbours(cells, x, y, height, width)
       IN  /\ index < Size(nextcells)
           /\ nextcells' = [nextcells EXCEPT ![index] = OmpRule(neighbours, cells[index])]
           /\ OmpLog(y, index)
    /\ OmpAdvance(y)
    /\ UNCHANGED <<shellVars, runVars, args, prog, pc, file, height, width, cells, numTurns, t,
                   heap, rowsLeft, cudaVars, probe>>

\* the same pass with index beyond the end of the vectors.  An access that
\* leaves the lower vector by more than the gap falls into the upper one; any
\* other falls into memory that belongs to neither: a load from there yields
\* whatever the heap holds, a store there goes unnoticed or brings the process
\* down.
OmpCellOutside(y) ==
    /\ prog = "openmp" /\ pc = "parallel" /\ y \in DOMAIN team
    /\ LET x == team[y]
           index == OmpIndex(y, x, height)
           neighbours == OmpNeighbours(cells, x, y, height, width)
       IN  /\ index >= Size(nextcells)
           /\ OmpLog(y, index)
           /\ \E hp \in Layouts(heap) :
                LET j == index - Size(cells) - hp.gap
                    hit == j \in DOMAIN cells
                    loaded == IF neighbours # 2 THEN {dead}
                              ELSE IF hp.cellsLow /\ hit THEN {nextcells[j]}
                              ELSE HeapBytes
                IN  /\ heap' = hp
                    /\ \E self \in loaded :
                         IF ~hp.cellsLow /\ hit
                         THEN /\ cells' = [cells EXCEPT ![j] = OmpRule(neighbours, self)]
                              /\ pc' = pc /\ OmpAdvance(y)
                         ELSE \/ /\ cells' = cells /\ pc' = pc /\ OmpAdvance(y)
                              \/ /\ cells' = cells /\ pc' = "crashed" /\ team' = team
    /\ UNCHANGED <<shellVars, runVars, args, prog, file, height, width, nextcells, numTurns, t,
                   rowsLeft, cudaVars, probe>>

OmpTeamDoneNoWait == rowsLeft = {}

\* every iteration has been handed out and every thread has finished its own
OmpTeamDone == rowsLeft = {} /\ DOMAIN team = {}

\* the implicit barrier at the end of the parallel for
OmpJoin ==
    /\ prog = "openmp" /\ pc = "parallel"
    /\ OmpTeamDone
    /\ pc' = "single"
    /\ UNCHANGED <<shellVars, runVars, args, prog, file, hostVars, ompVars, cudaVars,
                   logVars, probe>>

\* #pragma omp single  cells.swap(nextcells);  then t++
OmpSwap ==
    /\ prog = "openmp" /\ pc = "single"
    /\ cells' = nextcells /\ nextcells' = cells
    /\ heap' = [heap EXCEPT !.cellsLow = ~@]
    /\ swaps' = swaps + 1
    /\ t' = t + 1
    /\ pc' = "loop"
    /\ UNCHANGED <<shellVars, copies, args, prog, file, height, width, numTurns,
                   rowsLeft, team, cudaVars, logVars, probe>>

\* the loop test fails: run returns and main calls l.output_file()
OmpOutput ==
    /\ prog = "openmp" /\ pc = "loop" /\ ~OmpLoopTest(t, numTurns)
    /\ file' = [file EXCEPT !.openmp = output_file(cells, height, width)]
    /\ console' = console \o <<"Model run time", "Total time">>
    /\ pc' = "done"
    /\ UNCHANGED <<status, runVars, args, prog, hostVars, ompVars, cudaVars, logVars,
                   probe>>

----------------------------------------------------------------------------
(* gol-cuda.cu *)

\* Life l(height, width): both vectors sized, both device buffers
\* allocated, the board set and copied to the device.  Each of
\* the three checked calls can return an error: failed is the first that
\* does (0: none), and the constructor gets no further.
CudaLife(board) ==
    /\ height' = args.h /\ width' = args.w
    /\ nextcells' = Resized(args.h * args.w)
    /\ numTurns' = args.turns /\ t' = 0
    /\ \E failed \in 0..3, e \in cudaError_t :
          /\ (failed = 0) = (e = cudaSuccess)
          /\ cells' = IF failed \in {1, 2} THEN Resized(args.h * args.w) ELSE board
          /\ cellsDevice' = IF failed = 1 THEN <<>>
                            ELSE IF failed \in {2, 3}
                                 THEN [i \in 0..(args.h * args.w - 1) |-> Uninit]
                            ELSE board
          /\ nextcellsDevice' = IF failed \in {1, 2} THEN <<>>
                                ELSE [i \in 0..(args.h * args.w - 1) |-> Uninit]
          /\ Checked(e, "loop")
    /\ UNCHANGED <<status, runVars, args, prog, file, ompVars, launch, gthr, logVars,
                   probe>>

\* main up to and including Life l(height, width)
CudaConstruct ==
    /\ prog = "cuda" /\ pc = "main" /\ args.argc = ArgsWanted
    /\ CudaLife(init_random(args.h * args.w))

\* the threads of a launch that pass the first test i < n
Launched(l) == [k \in {id \in CudaThreadIds(l) : id < l.n} |-> k]

\* cudaRun<<<blocks, threads>>>(cells.size(), width, height, cellsDevice, nextcellsDevice)
CudaLaunch ==
    /\ prog = "cuda" /\ pc = "loop" /\ CudaLoopTest(t, numTurns)
    /\ LET l == [n |-> Size(cells), w |-> width, h |-> height,
                 gridDim |-> CudaBlocks(Size(cells)), blockDim |-> threads]
       IN  /\ launch' = l
           /\ gthr' = Launched(l)
    /\ wcount' = [i \in DOMAIN nextcellsDevice |-> 0]
    /\ wrows' = [i \in DOMAIN nextcellsDevice |-> {}]
    /\ pc' = "kernel"
    /\ UNCHANGED <<shellVars, runVars, args, prog, file, hostVars, ompVars,
                   cellsDevice, nextcellsDevice, probe>>

\* one pass of device thread k through the body of the kernel's loop, and i += stride
cudaRun(k) ==
    /\ prog = "cuda" /\ pc = "kernel"
    /\ k \in DOMAIN gthr /\ gthr[k] < launch.n
    /\ LET i == gthr[k]
           x == i % launch.w
           y == i \div launch.w
           neighbours == CudaNeighbours(cellsDevice, x, y, launch.h, launch.w)
       IN  /\ nextcellsDevice' =
                  [nextcellsDevice EXCEPT ![i] = CudaRule(neighbours, cellsDevice[i])]
           /\ wcount' = [wcount EXCEPT ![i] = @ + 1]
           /\ wrows' = [wrows EXCEPT ![i] = @ \cup {k}]
           /\ gthr' = [gthr EXCEPT ![k] = i + CudaStride(launch)]
    /\ UNCHANGED <<shellVars, runVars, args, prog, pc, file, hostVars, ompVars,
                   cellsDevice, launch, probe>>

KernelFinished == \A k \in DOMAIN gthr : ~(gthr[k] < launch.n)

\* checkError(cudaDeviceSynchronize()): returns cudaSuccess once every thread
\* has left the kernel, or an error as soon as the device reports one
CudaSynchronize ==
    /\ prog = "cuda" /\ pc = "kernel"
    /\ \E e \in cudaError_t :
          /\ e = cudaSuccess => KernelFinished
          /\ Checked(e, "swap")
    /\ UNCHANGED <<status, runVars, args, prog, file, hostVars, ompVars, cudaVars,
                   logVars, probe>>

\* int* temp = cellsDevice; cellsDevice = nextcellsDevice; nextcellsDevice = temp;
CudaSwap ==
    /\ prog = "cuda" /\ pc = "swap"
    /\ cellsDevice' = nextcellsDevice /\ nextcellsDevice' = cellsDevice
    /\ swaps' = swaps + 1
    /\ pc' = "memcpy"
    /\ UNCHANGED <<shellVars, copies, args, prog, file, hostVars, ompVars, launch, gthr,
                   logVars, probe>>

\* cudaMemcpy(cells.data(), cellsDevice, ..., cudaMemcpyDeviceToHost); then t++
CudaCopyBack ==
    /\ prog = "cuda" /\ pc = "memcpy"
    /\ \E e \in cudaError_t :
          /\ Checked(e, "loop")
          /\ IF e = cudaSuccess
             THEN cells' = cellsDevice /\ copies' = copies + 1 /\ t' = t + 1
             ELSE UNCHANGED <<cells, copies, t>>
    /\ UNCHANGED <<status, swaps, args, prog, file, height, width, nextcells, numTurns,
                   ompVars, cudaVars, logVars, probe>>

CudaOutput ==
    /\ prog = "cuda" /\ pc = "loop" /\ ~CudaLoopTest(t, numTurns)
    /\ file' = [file EXCEPT !.cuda = output_file(cells, height, width)]
    /\ console' = console \o <<"Model run time", "Total time">>
    /\ pc' = "done"
    /\ UNCHANGED <<status, runVars, args, prog, hostVars, ompVars, cudaVars, logVars,
                   probe>>

----------------------------------------------------------------------------

Next ==
    \/ \E p \in {"openmp", "cuda"} : Start(p)
    \/ Usage
    \/ Exit
    \/ OmpConstruct
    \/ OmpFork
    \/ \E y \in 0..(MaxH - 1) : OmpTakeRow(y)
    \/ \E y \in 0..(MaxH - 1) : OmpCell(y)
    \/ \E y \in 0..(MaxH - 1) : OmpCellOutside(y)
    \/ OmpJoin
    \/ OmpSwap
    \/ OmpOutput
    \/ CudaConstruct
    \/ CudaLaunch
    \/ \E k \in DeviceThreads : cudaRun(k)
    \/ CudaSynchronize
    \/ CudaSwap
    \/ CudaCopyBack
    \/ CudaOutput

Spec == Init /\ [][Next]_vars

\* the session in which only the CUDA binary is run
NextCuda ==
    \/ Start("cuda")
    \/ Usage
    \/ Exit
    \/ CudaConstruct
    \/ CudaLaunch
    \/ \E k \in DeviceThreads : cudaRun(k)
    \/ CudaSynchronize
    \/ CudaSwap
    \/ CudaCopyBack
    \/ CudaOutput

SpecCuda == Init /\ [][NextCuda]_vars

----------------------------------------------------------------------------
(* One launch of cudaRun on its own: any launch configuration, any grid *)

Grids(n) == [0..(n - 1) -> {0, 1}]

KDims == {d \in Dims : d[1] * d[2] <= KMaxCells}

InitKernel ==
    /\ \E d \in KDims, g \in 1..MaxGridDim, b \in 1..MaxBlockDim :
          /\ args = [argc |-> ArgsWanted, h |-> d[1], w |-> d[2], turns |-> 1]
          /\ height = d[1] /\ width = d[2]
          /\ launch = [n |-> d[1] * d[2], w |-> d[2], h |-> d[1],
                       gridDim |-> g, blockDim |-> b]
          /\ cellsDevice \in Grids(d[1] * d[2])
          /\ nextcellsDevice = [i \in 0..(d[1] * d[2] - 1) |-> Uninit]
          /\ wcount = [i \in 0..(d[1] * d[2] - 1) |-> 0]
          /\ wrows = [i \in 0..(d[1] * d[2] - 1) |-> {}]
    /\ gthr = Launched(launch)
    /\ prog = "cuda" /\ pc = "kernel"
    /\ file = [openmp |-> NoFile, cuda |-> NoFile]
    /\ cells = <<>> /\ nextcells = <<>>
    /\ numTurns = 1 /\ t = 0
    /\ heap = NoLayout
    /\ rowsLeft = {} /\ team = <<>>
    /\ status = NoStatus /\ console = <<>>
    /\ swaps = 0 /\ copies = 0
    /\ probe = NoProbe

NextKernel == \E k \in DeviceThreads : cudaRun(k)

SpecKernel == InitKernel /\ [][NextKernel]_vars

----------------------------------------------------------------------------
(* Both binaries built with init_glider() as the board pattern of the       *)
(* constructor, run on the 5x5 board for 4 turns.  The threads of a warp     *)
(* go through the kernel together.                                           *)

warpSize == 32

OmpConstructGlider ==
    /\ prog = "openmp" /\ pc = "main" /\ args.argc = ArgsWanted
    /\ OmpLife(init_glider(args.h * args.w, args.w))

CudaConstructGlider ==
    /\ prog = "cuda" /\ pc = "main" /\ args.argc = ArgsWanted
    /\ CudaLife(init_glider(args.h * args.w, args.w))

\* the threads of warp wp that are still in the kernel's loop
WarpActive(wp) == {k \in DOMAIN gthr : k \div warpSize = wp /\ gthr[k] < launch.n}

\* one pass of every active thread of warp wp through the body of the
\* kernel's loop, and i += stride
cudaRunWarp(wp) ==
    /\ prog = "cuda" /\ pc = "kernel" /\ WarpActive(wp) # {}
    /\ LET act == WarpActive(wp)
           by(i) == {k \in act : gthr[k] = i}
           value(i) == CudaRule(CudaNeighbours(cellsDevice, i % launch.w, i \div launch.w,
                                               launch.h, launch.w),
                                cellsDevice[i])
       IN  /\ nextcellsDevice' = [i \in DOMAIN nextcellsDevice |->
                                     IF by(i) # {} THEN value(i) ELSE nextcellsDevice[i]]
           /\ wcount' = [i \in DOMAIN wcount |-> wcount[i] + Cardinality(by(i))]
           /\ wrows' = [i \in DOMAIN wrows |-> wrows[i] \cup by(i)]
           /\ gthr' = [k \in DOMAIN gthr |->
                          IF k \in act THEN gthr[k] + CudaStride(launch) ELSE gthr[k]]
    /\ UNCHANGED <<shellVars, runVars, args, prog, pc, file, hostVars, ompVars,
                   cellsDevice, launch, probe>>

InitGlider ==
    /\ args = [argc |-> ArgsWanted, h |-> 5, w |-> 5, turns |-> 4]
    /\ status = NoStatus /\ console = <<>>
    /\ prog = "none" /\ pc = "shell"
    /\ file = [openmp |-> NoFile, cuda |-> NoFile]
    /\ Blank
    /\ probe = NoProbe

NextGlider ==
    \/ \E p \in {"openmp", "cuda"} : Start(p)
    \/ Exit
    \/ OmpConstructGlider
    \/ OmpFork
    \/ \E y \in 0..4 : OmpTakeRow(y)
    \/ \E y \in 0..4 : OmpCell(y)
    \/ OmpJoin
    \/ OmpSwap
    \/ OmpOutput
    \/ CudaConstructGlider
    \/ CudaLaunch
    \/ \E wp \in 0..(24 \div warpSize) : cudaRunWarp(wp)
    \/ CudaSynchronize
    \/ CudaSwap
    \/ CudaCopyBack
    \/ CudaOutput

SpecGlider == InitGlider /\ [][NextGlider]_vars

----------------------------------------------------------------------------
(* The rule branch and the neighbour sum of both programs, evaluated once *)

InitPure ==
    /\ \E d \in Dims :
          /\ args = [argc |-> ArgsWanted, h |-> d[1], w |-> d[2], turns |-> 0]
          /\ height = d[1] /\ width = d[2]
          /\ cells \in Grids(d[1] * d[2])
    /\ prog = "none" /\ pc = "probe"
    /\ file = [openmp |-> NoFile, cuda |-> NoFile]
    /\ nextcells = <<>>
    /\ numTurns = 0 /\ t = 0
    /\ heap = NoLayout
    /\ rowsLeft = {} /\ team = <<>>
    /\ cellsDevice = <<>> /\ nextcellsDevice = <<>>
    /\ launch = NoLaunch /\ gthr = <<>>
    /\ wcount = <<>> /\ wrows = <<>>
    /\ status = NoStatus /\ console = <<>>
    /\ swaps = 0 /\ copies = 0
    /\ probe = NoProbe

\* the inlined count_neighbours of both programs at cell (x, y) of cells
ProbeNeighbours(x, y) ==
    /\ pc = "probe" /\ probe = NoProbe /\ x < width /\ y < height
    /\ probe' = [kind |-> "count", x |-> x, y |-> y,
                 omp |-> OmpNeighbours(cells, x, y, height, width),
                 cuda |-> CudaNeighbours(cells, x, y, height, width)]
    /\ UNCHANGED <<shellVars, runVars, args, prog, pc, file, hostVars, ompVars,
                   cudaVars, logVars>>

\* the ruleset branch of both programs on own state s and neighbour sum n
ProbeRule(s, n) ==
    /\ pc = "probe" /\ probe = NoProbe
    /\ probe' = [kind |-> "rule", s |-> s, n |-> n,
                 omp |-> OmpRule(n, s), cuda |-> CudaRule(n, s)]
    /\ UNCHANGED <<shellVars, runVars, args, prog, pc, file, hostVars, ompVars,
                   cudaVars, logVars>>

NextPure ==
    \/ \E x \in 0..(MaxW - 1), y \in 0..(MaxH - 1) : ProbeNeighbours(x, y)
    \/ \E s \in {0, 1}, n \in 0..8 : ProbeRule(s, n)

SpecPure == InitPure /\ [][NextPure]_vars

----------------------------------------------------------------------------
(* The subscripts of the neighbour sum of both programs, computed once *)

\* the eight subscripts into cells / current at cell (x, y)
ProbeReads(x, y) ==
    /\ pc = "probe" /\ probe = NoProbe /\ x < width /\ y < height
    /\ probe' = [kind |-> "reads", x |-> x, y |-> y,
                 omp |-> OmpReads(x, y, height, width),
                 cuda |-> CudaReads(x, y, height, width)]
    /\ UNCHANGED <<shellVars, runVars, args, prog, pc, file, hostVars, ompVars, cudaVars,
                   logVars>>

NextReads == \E x \in 0..(MaxW - 1), y \in 0..(MaxH - 1) : ProbeReads(x, y)

SpecReads == InitPure /\ [][NextReads]_vars

----------------------------------------------------------------------------
(* The rule and the neighbourhood the claims speak of: B3/S23 on the torus *)

Offsets == {d \in {0 - 1, 0, 1} \X {0 - 1, 0, 1} : d # <<0, 0>>}

\* the cell d away from (x, y) on the torus, as a row-major position
TorusCell(x, y, d, h, w) == ((x + d[1] + w) % w) + ((y + d[2] + h) % h) * w

RECURSIVE SumOver(_, _, _, _, _, _)
SumOver(ds, c, x, y, h, w) ==
    IF ds = {} THEN 0
    ELSE LET d == CHOOSE e \in ds : TRUE
         IN  c[TorusCell(x, y, d, h, w)] + SumOver(ds \ {d}, c, x, y, h, w)

\* live count over the eight offsets
LiveNeighbours(c, x, y, h, w) == SumOver(Offsets, c, x, y, h, w)

B3S23(s, n) == IF n = 3 THEN 1 ELSE IF n = 2 THEN s ELSE 0

Generation(c, h, w) ==
    [i \in 0..(h * w - 1) |-> B3S23(c[i], LiveNeighbours(c, i % w, i \div w, h, w))]

RECURSIVE GenerationN(_, _, _, _)
GenerationN(g, c, h, w) ==
    IF g = 0 THEN c ELSE Generation(GenerationN(g - 1, c, h, w), h, w)

InitialGrid == init_random(args.h * args.w)

Binaries == {"openmp", "cuda"}
Constructed == prog \in Binaries /\ pc \notin {"main", "usage", "crashed"}

----------------------------------------------------------------------------
(* Claims *)

\* C1 (as claimed): for H, W >= 3 and the same command line, the output files
\* of the OpenMP and the CUDA binary are identical.
CrossStrategyEquivalence ==
    (args.h >= 3 /\ args.w >= 3 /\ file.openmp # NoFile /\ file.cuda # NoFile)
        => file.openmp = file.cuda

\* C2 (as claimed): when the parallel for of one generation has joined, and
\* before the swap, nextcells[y*W + x] is the rule applied to cells[y*W + x]
\* and the live count of the eight toroidal neighbours of (x, y), for H, W >= 3.
OmpStepPostcondition ==
    (prog = "openmp" /\ pc = "single" /\ height >= 3 /\ width >= 3)
        => \A y \in 0..(height - 1), x \in 0..(width - 1) :
              nextcells[y * width + x]
                  = B3S23(cells[y * width + x], LiveNeighbours(cells, x, y, height, width))

\* C3: when every thread of a launch has left the kernel's loop, every index
\* i of next in [0, n) was written exactly once, and next[i] is the rule
\* applied to current[i] and the live count of the eight toroidal neighbours
\* of cell (i mod W, i div W), also when fewer than n threads were launched.
KernelPostcondition ==
    (prog = "cuda" /\ pc = "kernel")
        => /\ \A i \in DOMAIN wcount : wcount[i] <= 1
           /\ KernelFinished
                => \A i \in 0..(launch.n - 1) :
                      /\ wcount[i] = 1
                      /\ nextcellsDevice[i]
                            = B3S23(cellsDevice[i],
                                    LiveNeighbours(cellsDevice, i % launch.w,
                                                   i \div launch.w, launch.h, launch.w))

KernelWitness ==
    /\ prog = "cuda" /\ pc = "kernel" /\ KernelFinished
    /\ launch.h >= 3 /\ launch.w >= 3
    /\ launch.gridDim > 1 /\ launch.gridDim * launch.blockDim < launch.n
    /\ \E i, j \in DOMAIN nextcellsDevice :
          /\ nextcellsDevice[i] = 1 /\ cellsDevice[i] = 0
          /\ nextcellsDevice[j] = 1 /\ cellsDevice[j] = 1
          /\ LiveNeighbours(cellsDevice, j % launch.w, j \div launch.w,
                            launch.h, launch.w) = 2

\* C4 (as claimed): when the parallel for of one generation has joined, every
\* index of nextcells in [0, H*W) was written exactly once, none by two rows,
\* and nothing was written outside, whatever rows the threads were handed.
OmpWritesExactlyOnce ==
    (prog = "openmp" /\ pc = "single")
        => \A i \in DOMAIN wcount :
              /\ Cardinality(wrows[i]) <= 1
              /\ wcount[i] = (IF i < height * width THEN 1 ELSE 0)

\* C5 (as claimed): running a binary again with the same command line
\* reproduces the output file it wrote before, however its workers were
\* scheduled in either run.  (Stated for H <= W, where every access of both
\* programs stays inside the vectors and two runs differ in the schedule alone.)
RunsAreDeterministic ==
    [][\A p \in Binaries :
          (args.h <= args.w /\ file[p] # NoFile) => file'[p] = file[p]]_vars

\* C6 (as claimed): whenever the driver is at its loop test, t ticks are done
\* and cells holds generation t of the initial grid; it leaves the loop with
\* t = turns, and output_file reads generation turns.
DriverGenerationInvariant ==
    (prog \in Binaries /\ pc \in {"loop", "done"})
        => /\ t <= numTurns
           /\ cells = GenerationN(t, InitialGrid, args.h, args.w)
           /\ (pc = "done" => t = numTurns)

\* C7: with turns = 0 no generation is started and no swap is made, and the
\* file output_file writes shows the initialised grid cell for cell.
ZeroTurnIdempotence ==
    args.turns = 0
        => /\ pc \notin {"parallel", "single", "kernel", "swap", "memcpy"}
           /\ Constructed => (cells = InitialGrid /\ t = 0)
           /\ \A p \in Binaries :
                 file[p] # NoFile
                    => /\ Len(file[p]) = args.h
                       /\ \A y \in 0..(args.h - 1) :
                             /\ Len(file[p][y + 1]) = args.w
                             /\ \A x \in 0..(args.w - 1) :
                                   file[p][y + 1][x + 1]
                                       = DigitChar[InitialGrid[y * args.w + x] + 1]

ZeroTurnWitness ==
    /\ args.turns = 0 /\ args.h >= 3 /\ args.w >= 3
    /\ file.openmp # NoFile /\ file.cuda # NoFile
    /\ prog = "none"

\* C8 (as claimed): in every state of a run both vectors have H*W elements and
\* every cell of cells is 0 or 1, and an output file has H lines of W
\* characters, each "0" or "1".
ConservationOfShape ==
    /\ Constructed
          => /\ Size(cells) = args.h * args.w
             /\ Size(nextcells) = args.h * args.w
             /\ \A i \in DOMAIN cells : cells[i] \in {0, 1}
    /\ \A p \in Binaries :
          file[p] # NoFile
             => /\ Len(file[p]) = args.h
                /\ \A y \in 1..args.h :
                      /\ Len(file[p][y]) = args.w
                      /\ \A x \in 1..args.w : file[p][y][x] \in {"0", "1"}

\* C9: on every own state s in {0, 1} and every neighbour sum n in 0..8 the
\* rule branch of either program yields s when n = 2, 1 when n = 3 and 0
\* otherwise, and the two programs agree.
RuleCorrectness ==
    probe.kind = "rule"
        => LET expected == IF probe.n = 2 THEN probe.s
                           ELSE IF probe.n = 3 THEN 1 ELSE 0
           IN  /\ probe.omp = expected
               /\ probe.cuda = expected
               /\ probe.omp = probe.cuda

RuleWitness ==
    /\ probe.kind = "rule" /\ probe.n = 2 /\ probe.s = 1 /\ probe.omp = 1

\* the positions of the eight neighbours of (x, y)
Neighbourhood(x, y, h, w) == {TorusCell(x, y, d, h, w) : d \in Offsets}

\* C10: for H, W >= 3 the eight cells ((x+dx) mod W, (y+dy) mod H) are
\* distinct and the neighbour sum of either program is the number of live
\* cells among them; on the 3x3 grid with only (0,0) alive it is 1 at (2,2).
ToroidalNeighbourCount ==
    (probe.kind = "count" /\ height >= 3 /\ width >= 3)
        => LET nb == Neighbourhood(probe.x, probe.y, height, width)
               live == Cardinality({c \in nb : cells[c] = 1})
           IN  /\ Cardinality(nb) = 8
               /\ probe.omp = live
               /\ probe.cuda = live
               /\ (height = 3 /\ width = 3 /\ probe.x = 2 /\ probe.y = 2
                    /\ cells = [i \in 0..8 |-> IF i = 0 THEN 1 ELSE 0])
                     => probe.omp = 1 /\ probe.cuda = 1

ToroidalCornerWitness ==
    /\ probe.kind = "count" /\ height = 3 /\ width = 3
    /\ probe.x = 2 /\ probe.y = 2
    /\ cells = [i \in 0..8 |-> IF i = 0 THEN 1 ELSE 0]
    /\ probe.omp = 1 /\ probe.cuda = 1

\* the board with exactly the cells (x, y) of live alive, W = 5
Board5(live) == [i \in 0..24 |-> IF <<i % 5, i \div 5>> \in live THEN 1 ELSE 0]

GliderSeed == {<<2, 0>>, <<0, 1>>, <<2, 1>>, <<1, 2>>, <<2, 2>>}
GliderMoved == {<<3, 1>>, <<1, 2>>, <<3, 2>>, <<2, 3>>, <<3, 3>>}

\* C11: on the 5x5 board seeded by init_glider (live cells (2,0), (0,1), (2,1),
\* (1,2), (2,2)), 4 generations leave, in either binary, exactly the cells
\* (3,1), (1,2), (3,2), (2,3), (3,3) alive: the seed moved by +1 in x and in y;
\* both output files show that board.
GliderScenario ==
    /\ (Constructed /\ t = 0 /\ pc = "loop") => cells = Board5(GliderSeed)
    /\ (prog \in Binaries /\ pc = "done")
          => /\ t = 4
             /\ cells = Board5(GliderMoved)
             /\ cells = Board5({<<c[1] + 1, c[2] + 1>> : c \in GliderSeed})
    /\ \A p \in Binaries :
          file[p] # NoFile
             => \A y \in 0..4, x \in 0..4 :
                   file[p][y + 1][x + 1]
                       = (IF <<x, y>> \in GliderMoved THEN "1" ELSE "0")
    /\ (file.openmp # NoFile /\ file.cuda # NoFile) => file.openmp = file.cuda

GliderWitness ==
    /\ prog = "none" /\ status = 0
    /\ file.openmp # NoFile /\ file.cuda # NoFile
    /\ file.openmp[2] = <<"0", "0", "0", "1", "0">>

Lines(c) == {c[i] : i \in DOMAIN c}

\* C12 (as claimed): with a number of arguments other than 3, main prints the
\* usage line and exits with status 1, and no grid is constructed, no
\* generation run and no output file written; with exactly 3 arguments the
\* binary constructs, runs all its turns, writes its output file and exits 0.
\* (A run that a failed CUDA call ends is left to C15.)
UsageErrorContract ==
    /\ (prog \in Binaries /\ args.argc # ArgsWanted)
          => /\ pc \in {"main", "usage"}
             /\ height = 0 /\ width = 0 /\ cells = <<>> /\ nextcells = <<>>
             /\ t = 0 /\ swaps = 0
             /\ file = [openmp |-> NoFile, cuda |-> NoFile]
    /\ (status # NoStatus /\ args.argc # ArgsWanted)
          => /\ status = 1
             /\ console = <<UsageMessage>>
             /\ file = [openmp |-> NoFile, cuda |-> NoFile]
    /\ (prog \in Binaries /\ pc = "done")
          => /\ args.argc = ArgsWanted
             /\ t = args.turns /\ swaps = args.turns
             /\ file[prog] # NoFile
    /\ (status # NoStatus /\ args.argc = ArgsWanted /\ "CUDA error" \notin Lines(console))
          => status = 0

\* C13: for every H, W >= 1 and every cell (x, y) of the grid, the neighbour
\* sum of either program reads exactly eight subscripts, each of them in
\* [0, H*W), that is inside the buffer it reads.
NeighbourReadsInBounds ==
    probe.kind = "reads"
        => /\ Len(probe.omp) = 8 /\ Len(probe.cuda) = 8
           /\ \A k \in 1..8 :
                 /\ probe.omp[k] >= 0 /\ probe.omp[k] < height * width
                 /\ probe.cuda[k] >= 0 /\ probe.cuda[k] < height * width
                 /\ probe.omp[k] \in DOMAIN cells
                 /\ probe.cuda[k] \in DOMAIN cells

NeighbourReadsWitness ==
    /\ probe.kind = "reads"
    /\ height = 1 /\ width = 2 /\ probe.x = 0 /\ probe.y = 0
    /\ probe.omp = <<1, 0, 1, 1, 1, 1, 0, 1>>
    /\ probe.cuda = <<1, 0, 1, 1, 1, 1, 0, 1>>

\* C14 (as claimed): from the fork of a generation's update to its join (the
\* launch of the kernel to its end) no step of a worker of either binary
\* changes the current buffer, cells or cellsDevice, so that it holds at the
\* swap what it held when the update began.
StepLeavesCurrentUntouched ==
    [][/\ (prog = "openmp" /\ pc = "parallel") => cells' = cells
       /\ (prog = "cuda" /\ pc = "kernel") => cellsDevice' = cellsDevice]_vars

\* C15: once a checked CUDA call of the CUDA binary has returned an error
\* (either cudaMalloc, either cudaMemcpy, cudaDeviceSynchronize), the process
\* is aborted at that call: the step that reports the error ends the run
\* without finishing the generation, and all that follows is the end of the
\* process with status 134; no kernel is launched, no swap or copy made and
\* the output file is not written.
GpuFailureIsFatal ==
    [][/\ (prog' = "cuda" /\ "CUDA error" \in Lines(console'))
            => /\ pc' = "crashed"
               /\ file' = file /\ t' = t /\ swaps' = swaps /\ copies' = copies
       /\ (prog = "cuda" /\ "CUDA error" \in Lines(console))
            => /\ pc = "crashed"
               /\ prog' = "none" /\ status' = Aborted /\ file' = file]_vars

GpuFailureWitness ==
    /\ prog = "cuda" /\ pc = "crashed" /\ "CUDA error" \in Lines(console)
    /\ t = 1 /\ launch # NoLaunch /\ ~KernelFinished
    /\ file.cuda = NoFile

\* C16: the buffers of generation t are swapped once, by the main thread, and
\* only when every worker has finished: every row of the parallel for is
\* handed out and done, every thread of the launch has left the kernel's
\* loop (cudaDeviceSynchronize has returned); and while any worker is at
\* work the number of swaps made is the number of generations completed, so
\* no worker of the next generation starts before the swap.
BarrierBeforeSwap ==
    /\ (prog = "openmp" /\ pc = "single")
          => rowsLeft = {} /\ DOMAIN team = {} /\ swaps = t
    /\ (prog = "openmp" /\ pc \in {"loop", "parallel", "done"}) => swaps = t
    /\ (prog = "openmp" /\ (rowsLeft # {} \/ DOMAIN team # {}))
          => pc \in {"parallel", "crashed"} /\ swaps = t
    /\ (prog = "cuda" /\ pc = "swap")
          => (\A k \in DOMAIN gthr : gthr[k] >= launch.n) /\ swaps = t
    /\ (prog = "cuda" /\ pc = "memcpy")
          => (\A k \in DOMAIN gthr : gthr[k] >= launch.n) /\ swaps = t + 1
    /\ (prog = "cuda" /\ pc \in {"loop", "kernel", "done"}) => swaps = t
    /\ (prog = "cuda" /\ \E k \in DOMAIN gthr : gthr[k] < launch.n)
          => pc \in {"kernel", "crashed"} /\ swaps = t

BarrierWitness ==
    /\ prog = "openmp" /\ pc = "single" /\ t = 1 /\ swaps = 1
    /\ height >= 2 /\ file.cuda # NoFile
    /\ \E i \in DOMAIN wcount : wcount[i] > 0

\* C17 (as claimed): a run of the CUDA binary with turns >= 1 copies the grid
\* from the device to the host exactly once, after the swap of the last
\* generation, and not after each generation.
DeviceToHostCopyOnce ==
    /\ (prog = "cuda" /\ pc = "done" /\ numTurns >= 1) => copies = 1
    /\ (prog = "cuda" /\ pc = "memcpy") => t = numTurns - 1

\* C18 (as claimed): every index at which the OpenMP loop reads the cell's
\* own state and stores its next state lies in [0, H*W), for every H, W >= 1,
\* H > W included; no access outside the vectors is made.
OmpWriteIndexInBounds ==
    (prog = "openmp" /\ pc \in {"parallel", "single", "crashed"})
        => \A i \in DOMAIN wcount :
              wcount[i] > 0 => (i < height * width /\ i \in DOMAIN nextcells)

====
